---- MODULE Spec2Model ----
(***************************************************************************)
(* Model of the checkpointed user-profile pipeline of GameInsight-Agent:   *)
(* UserProfileAnalyzer.analyze_user_profiles and the checkpoint documents  *)
(* it reads and writes under save/, driven by the menu loop of             *)
(* main_user_profile.py.  One run of analyze_user_profiles is a sequence   *)
(* of steps (pc); between any two steps the user may interrupt the         *)
(* process, and a write of the checkpoint file may be cut short.           *)
(***************************************************************************)
EXTENDS Integers, Sequences, FiniteSets, TLC

\* ---------------------------------------------------------------- bounds
MaxRuns == 3          \* number of times analyze_user_profiles is started
MaxReviews == 3       \* number of reviews of the largest game
MaxFaults == 2        \* number of disturbances: oracle answers other than
                      \* "ok", and interrupts by the user
MaxTexts == 3         \* number of reviews of a game analysed on its own
MaxBatch == 2         \* largest batch size of a game analysed on its own
MaxRows == 2          \* number of rows of a table loaded on its own

\* ------------------------------------------------------------ input data
\* Paths the user can select.  X is a well-formed table with the games A
\* and B, Z lacks a required column.
Sources == {"X", "Z"}

\* Batch sizes the runs are started with.
BatchSizes == {2}

\* Number of retained reviews of each game.
ReviewCount(g) == IF g = "A" THEN MaxReviews ELSE 1

\* What the oracle can answer to a batch call and to an aggregation call.
BatchResponses == {"ok", "error"}
AggResponses == {"ok", "badtypes", "nondict", "garbage", "error"}

\* ------------------------------------------------------------- helpers
Range(s) == {s[i] : i \in 1..Len(s)}

Min(a, b) == IF a < b THEN a ELSE b

RECURSIVE SumSeq(_)
SumSeq(s) == IF s = <<>> THEN 0 ELSE Head(s) + SumSeq(Tail(s))

\* required_columns, line 132: 游戏名称 and 长评内容
required_columns == {"name", "text"}

\* the columns of the table at a path
Columns(src) == IF src = "X" THEN {"name", "text"} ELSE {"name"}

\* the games of the table stored at path X, in order of first occurrence
VARIABLE workbook

\* (a loader that would not look at the columns)
GroupedGames_any(src) == <<"A", "B">>

\* load_and_group_data: the grouped table, as the game names in order of
\* first occurrence; the empty dict when the load fails.
GroupedGames(src) ==
    IF required_columns \subseteq Columns(src) THEN workbook ELSE <<>>

\* the reviews of a game, numbered in source order
Reviews(g) == [i \in 1..ReviewCount(g) |-> i]

\* split_into_batches: for i in range(0, len(reviews), batch_size):
\*                         batches.append(reviews[i:i + batch_size])
RECURSIVE SplitFrom(_, _, _)
SplitFrom(reviews, i, bs) ==
    IF i >= Len(reviews) THEN <<>>
    ELSE <<SubSeq(reviews, i + 1, Min(i + bs, Len(reviews)))>>
         \o SplitFrom(reviews, i + bs, bs)

\* (a batcher that would hand all reviews over as one batch)
split_into_batches_whole(reviews, bs) ==
    IF reviews = <<>> THEN <<>> ELSE <<reviews>>

split_into_batches(reviews, bs) == SplitFrom(reviews, 0, bs)

\* --------------------------------------------------------- the documents
NoProfile == [status |-> "none"]

\* self.combined_profiles as built by __init__
InitDoc(t, bs) ==
    [kind |-> "doc",
     timestamp |-> t,
     batch_size |-> bs,
     excel_file |-> "unset",
     status |-> "in_progress",
     total_games |-> 0,
     total_reviews |-> 0,
     completed_games |-> 0,
     game_profiles |-> <<>>,
     overall_profile |-> NoProfile,
     batch_results |-> <<>>]

\* contents of a file name under save/: no such file, a file whose write
\* was cut short, or a complete document
NoFile == [kind |-> "none"]
PartialFile == [kind |-> "partial"]

\* keys of the game_profiles dict of a document
ProfileKeys(doc) == {doc.game_profiles[i].game_name : i \in 1..Len(doc.game_profiles)}

VARIABLES
    disk,            \* save/combined_profiles_<t>.json, by timestamp t
    clock,           \* the latest timestamp handed out by datetime.now()
    runs,            \* number of runs started so far
    pc,              \* position of the running analyze_user_profiles
    excel_file,      \* its argument
    batch_size,      \* self.batch_size
    file,            \* self.combined_profile_file
    mem,             \* self.combined_profiles (all_batch_results aliases mem.batch_results)
    session_loaded,  \* result of load_existing_session
    completed,       \* completed_games, the keys found at line 586
    remaining,       \* remaining_games
    gi,              \* index in remaining of the game being processed
    bi,              \* number of batches of that game already analysed
    batch_results,   \* the local list batch_results of the game
    game_profiles,   \* the local list game_profiles
    overall,         \* the local overall_profile
    faults,          \* number of disturbances so far
    calls,           \* oracle calls made by the current run, in order
    done,            \* results of the oracle calls completed by the current run
    existing_data,   \* the document load_existing_session read, if it reused one
    prev,            \* what the latest finished run left behind
    unit             \* a function called on its own: its input and result

vars == <<disk, clock, runs, pc, excel_file, batch_size, file, mem,
          session_loaded, completed, remaining, gi, bi, batch_results,
          game_profiles, overall, faults, calls, done, existing_data,
          prev, unit, workbook>>

\* the variables of a session, which a function called on its own leaves alone
session_vars == <<disk, clock, runs, pc, excel_file, batch_size, file, mem,
                  session_loaded, completed, remaining, gi, bi, batch_results,
                  game_profiles, overall, faults, calls, done, existing_data,
                  prev, workbook>>

run_locals == <<excel_file, batch_size, file, session_loaded, completed,
                remaining, gi, bi, batch_results, game_profiles, overall>>

\* no function is being called on its own
NoUnit == [op |-> "none"]

NoPrev == [excel_file |-> "unset", outcome |-> "none", persisted |-> {},
           batches |-> {}]

SessionInit ==
    /\ disk = [t \in 1..MaxRuns |-> NoFile]
    /\ clock = 0
    /\ runs = 0
    /\ pc = "idle"
    /\ excel_file = "unset"
    /\ batch_size = 0
    /\ file = 0
    /\ mem = NoFile
    /\ session_loaded = FALSE
    /\ completed = {}
    /\ remaining = <<>>
    /\ gi = 0
    /\ bi = 0
    /\ batch_results = <<>>
    /\ game_profiles = <<>>
    /\ overall = NoProfile
    /\ faults = 0
    /\ calls = <<>>
    /\ done = {}
    /\ existing_data = NoFile
    /\ prev = NoPrev
    /\ workbook = <<"A", "B">>

Init ==
    /\ SessionInit
    /\ unit = NoUnit

\* ------------------------------------------------ load_existing_session
ExistingFiles == {t \in DOMAIN disk : disk[t].kind # "none"}

\* existing_files.sort(reverse=True); latest_file = existing_files[0]
LatestFile == CHOOSE t \in ExistingFiles : \A u \in ExistingFiles : u <= t

\* (a loader that would look for the data file in every checkpoint)
load_existing_session_any(src) ==
    \E t \in ExistingFiles : disk[t].kind = "doc" /\ disk[t].excel_file = src

\* True when the latest file parses and records the same data file
load_existing_session(src) ==
    /\ ExistingFiles # {}
    /\ disk[LatestFile].kind = "doc"
    /\ disk[LatestFile].excel_file = src

\* ------------------------------------------------------ end of a run
\* is the result r in the document d
InDoc(r, d) ==
    /\ d.kind = "doc"
    /\ \/ r \in Range(d.batch_results)
       \/ r \in Range(d.game_profiles)
       \/ r = d.overall_profile

BatchKeys(rs) == {<<r.game_name, r.batch_num>> : r \in {x \in rs : x.kind = "batch"}}

\* the process leaves analyze_user_profiles: by return, by an exception
\* that main() reports, or by KeyboardInterrupt, on which main() breaks
\* out of its loop.  Nothing of the analyzer object survives.
EndRun(how, d) ==
    /\ pc' = "idle"
    /\ prev' = [excel_file |-> excel_file,
                outcome |-> how,
                persisted |-> IF d[file].kind = "doc" THEN ProfileKeys(d[file]) ELSE {},
                batches |-> BatchKeys(done)]
    /\ excel_file' = "unset"
    /\ batch_size' = 0
    /\ file' = 0
    /\ mem' = NoFile
    /\ session_loaded' = FALSE
    /\ completed' = {}
    /\ remaining' = <<>>
    /\ gi' = 0
    /\ bi' = 0
    /\ batch_results' = <<>>
    /\ game_profiles' = <<>>
    /\ overall' = NoProfile
    /\ calls' = <<>>
    /\ done' = {}
    /\ existing_data' = NoFile
    /\ unit' = unit
    /\ workbook' = workbook

\* ------------------------------------------------------------ the steps
\* main(): UserProfileAnalyzer(...), then analyze_user_profiles up to the
\* first save: load_existing_session and the excel_file assignment.
\* Each analyzer is created in a later second than the one before, t.
StartRun(src, bs, t) ==
    /\ pc = "idle"
    /\ runs < MaxRuns
    /\ t = clock + 1
    /\ runs' = runs + 1
    /\ clock' = t
    /\ excel_file' = src
    /\ batch_size' = bs
    /\ session_loaded' = load_existing_session(src)
    /\ IF load_existing_session(src)
       THEN /\ mem' = [disk[LatestFile] EXCEPT !.excel_file = src]
            /\ file' = LatestFile
            /\ existing_data' = disk[LatestFile]
       ELSE /\ mem' = [InitDoc(t, bs) EXCEPT !.excel_file = src]
            /\ file' = t
            /\ existing_data' = NoFile
    /\ pc' = "save_init"
    /\ calls' = <<>>
    /\ done' = {}
    /\ UNCHANGED <<disk, completed, remaining, gi, bi, batch_results,
                   game_profiles, overall, faults, prev, unit, workbook>>

\* the oracle answers resp; answers other than "ok" are disturbances
Answer(resp) ==
    /\ resp # "ok" => faults < MaxFaults
    /\ faults' = IF resp = "ok" THEN faults ELSE faults + 1

\* save_combined_profiles
Save(doc) == disk' = [disk EXCEPT ![file] = doc]

\* lines 569 / 574
SaveInit ==
    /\ pc = "save_init"
    /\ Save(mem)
    /\ pc' = "load"
    /\ UNCHANGED <<clock, runs, run_locals, mem, faults, calls, done,
                   existing_data, prev, unit, workbook>>

\* lines 577-579: the load fails, the run reports failure
LoadFail ==
    /\ pc = "load"
    /\ GroupedGames(excel_file) = <<>>
    /\ EndRun("failed", disk)
    /\ UNCHANGED <<disk, clock, runs, faults>>

\* lines 577-582
Load ==
    /\ pc = "load"
    /\ GroupedGames(excel_file) # <<>>
    /\ mem' = [mem EXCEPT !.total_games = Len(GroupedGames(excel_file))]
    /\ pc' = "save_total"
    /\ UNCHANGED <<disk, clock, runs, run_locals, faults, calls, done,
                   existing_data, prev, unit, workbook>>

\* (a loop that would stop after its first game)
LoopPc_first(rem, i, bs) ==
    IF i > Min(1, Len(rem)) THEN "overall"
    ELSE IF split_into_batches(Reviews(rem[i]), bs) = <<>> THEN "save_batches"
    ELSE "batch"

\* where the for loop over remaining_games goes with game index i
LoopPc(rem, i, bs) ==
    IF i > Len(rem) THEN "overall"
    ELSE IF split_into_batches(Reviews(rem[i]), bs) = <<>> THEN "save_batches"
    ELSE "batch"

\* line 587: the games of the table that have no stored profile, in order
remaining_games_all(games, keys) == games

\* (a loop that would take the games without a profile last to first)
remaining_games_rev(games, keys) ==
    LET rem == SelectSeq(games, LAMBDA g : g \notin keys)
    IN [i \in 1..Len(rem) |-> rem[Len(rem) + 1 - i]]

remaining_games(games, keys) == SelectSeq(games, LAMBDA g : g \notin keys)

\* lines 583-595
SaveTotal ==
    /\ pc = "save_total"
    /\ Save(mem)
    /\ completed' = ProfileKeys(mem)
    /\ LET rem == remaining_games(GroupedGames(excel_file), ProfileKeys(mem))
       IN /\ remaining' = rem
          /\ pc' = LoopPc(rem, 1, batch_size)
    /\ gi' = 1
    /\ bi' = 0
    /\ batch_results' = <<>>
    /\ game_profiles' = mem.game_profiles
    /\ UNCHANGED <<clock, runs, excel_file, batch_size, file, mem,
                   session_loaded, overall, faults, calls, done,
                   existing_data, prev, unit, workbook>>

\* (an analyze_batch that would number the batches from 0)
BatchResult_from_zero(g, n, batch, resp, c) ==
    [kind |-> "batch",
     game_name |-> g,
     batch_num |-> n - 1,
     review_count |-> Len(batch),
     analysis |-> IF resp = "ok" THEN "content" ELSE "error_text",
     status |-> IF resp = "ok" THEN "success" ELSE "failed",
     attempt |-> c]

\* (an analyze_batch that would report every batch as analysed)
BatchResult_success(g, n, batch, resp, c) ==
    [kind |-> "batch",
     game_name |-> g,
     batch_num |-> n,
     review_count |-> Len(batch),
     analysis |-> "content",
     status |-> "success",
     attempt |-> c]

\* analyze_batch, lines 260-280; analysis is the oracle's text, or
\* f"分析失败: {e}" when the call raised; attempt tells the dicts of two
\* attempts apart (their analysis text and processing_time): it is the
\* position at which the result first enters the document's list
BatchResult(g, n, batch, resp, c) ==
    [kind |-> "batch",
     game_name |-> g,
     batch_num |-> n,
     review_count |-> Len(batch),
     analysis |-> IF resp = "ok" THEN "content" ELSE "error_text",
     status |-> IF resp = "ok" THEN "success" ELSE "failed",
     attempt |-> c]

\* lines 607-612: one turn of the batch loop
AnalyzeBatch(resp) ==
    /\ pc = "batch"
    /\ LET g == remaining[gi]
           batches == split_into_batches(Reviews(g), batch_size)
           r == BatchResult(g, bi + 1, batches[bi + 1], resp,
                            Len(mem.batch_results) + 1)
       IN /\ batch_results' = Append(batch_results, r)
          /\ mem' = [mem EXCEPT !.batch_results = Append(@, r)]
          /\ bi' = bi + 1
          /\ pc' = IF bi + 1 = Len(batches) THEN "save_batches" ELSE "batch"
          /\ Answer(resp)
          /\ calls' = Append(calls, [kind |-> "batch", game_name |-> g,
                                     batch_num |-> bi + 1,
                                     input |-> batches[bi + 1]])
          /\ done' = done \cup {r}
    /\ UNCHANGED <<disk, clock, runs, excel_file, batch_size, file,
                   session_loaded, completed, remaining, gi, game_profiles,
                   overall, existing_data, prev, unit, workbook>>

\* save_batch_results, lines 115-124
SaveBatches ==
    /\ pc = "save_batches"
    /\ LET doc == [mem EXCEPT !.batch_results = @ \o batch_results]
       IN /\ mem' = doc
          /\ Save(doc)
    /\ pc' = "aggregate"
    /\ UNCHANGED <<clock, runs, run_locals, faults, calls, done,
                   existing_data, prev, unit, workbook>>

\* successful_batches / successful_profiles: keep the entries with status success
Successful(rs) == SelectSeq(rs, LAMBDA r : r.status = "success")

\* (a sum that would count one review for each batch)
ReviewCounts_one(rs) == [i \in 1..Len(rs) |-> 1]

\* batch['review_count'] for batch in successful_batches, line 385
ReviewCounts(rs) == [i \in 1..Len(rs) |-> rs[i].review_count]
BatchNums(rs) == [i \in 1..Len(rs) |-> rs[i].batch_num]
GameNames(ps) == [i \in 1..Len(ps) |-> ps[i].game_name]
TotalReviews(ps) == [i \in 1..Len(ps) |-> ps[i].total_reviews]

\* aggregate_game_profiles, lines 343-415, given the oracle's answer:
\*   ok       a JSON object whose fields are a string and lists of strings
\*   badtypes a JSON object with a pros/cons/tags field of another type
\*   nondict  JSON that is not an object (TypeError in the field check)
\*   garbage  text that json.loads rejects (the fallback profile)
\*   error    the call raises (timeout, connection)
GameProfile(g, rs, resp) ==
    IF resp \in {"ok", "badtypes", "garbage"}
    THEN [kind |-> "game",
          game_name |-> g,
          total_reviews |-> SumSeq(ReviewCounts(Successful(rs))),
          batch_count |-> Len(Successful(rs)),
          fields |-> IF resp = "badtypes" THEN "badtypes" ELSE "strings",
          origin |-> IF resp = "garbage" THEN "fallback" ELSE "json",
          status |-> "success"]
    ELSE [kind |-> "game", game_name |-> g, status |-> "failed",
          error |-> "exception"]

\* (an aggregation that would make up a profile when no batch succeeded)
NoBatchProfile_success(g) ==
    [kind |-> "game", game_name |-> g, total_reviews |-> 0, batch_count |-> 0,
     fields |-> "strings", origin |-> "fallback", status |-> "success"]

\* aggregate_game_profiles, lines 285-293
NoBatchProfile(g) ==
    [kind |-> "game", game_name |-> g, status |-> "failed",
     error |-> "all_batches_failed"]

\* (an aggregation that would ask the oracle although no batch succeeded)
AggregateNoBatch_asks ==
    /\ pc = "aggregate"
    /\ Successful(batch_results) = <<>>
    /\ game_profiles' = Append(game_profiles, NoBatchProfile(remaining[gi]))
    /\ calls' = Append(calls, [kind |-> "game", game_name |-> remaining[gi],
                               batch_num |-> 0, input |-> <<>>])
    /\ pc' = "save_game"
    /\ UNCHANGED <<disk, clock, runs, excel_file, batch_size, file, mem,
                   session_loaded, completed, remaining, gi, bi,
                   batch_results, overall, faults, done,
                   existing_data, prev, unit, workbook>>

\* line 619-621 when no batch succeeded: no oracle call
AggregateNoBatch ==
    /\ pc = "aggregate"
    /\ Successful(batch_results) = <<>>
    /\ game_profiles' = Append(game_profiles, NoBatchProfile(remaining[gi]))
    /\ pc' = "save_game"
    /\ UNCHANGED <<disk, clock, runs, excel_file, batch_size, file, mem,
                   session_loaded, completed, remaining, gi, bi,
                   batch_results, overall, faults, calls, done,
                   existing_data, prev, unit, workbook>>

\* line 619-621 with an oracle call
AggregateCall(resp) ==
    /\ pc = "aggregate"
    /\ Successful(batch_results) # <<>>
    /\ LET p == GameProfile(remaining[gi], batch_results, resp)
       IN /\ game_profiles' = Append(game_profiles, p)
          /\ done' = done \cup {p}
    /\ Answer(resp)
    /\ calls' = Append(calls, [kind |-> "game", game_name |-> remaining[gi],
                               batch_num |-> 0,
                               input |-> BatchNums(Successful(batch_results))])
    /\ pc' = "save_game"
    /\ UNCHANGED <<disk, clock, runs, excel_file, batch_size, file, mem,
                   session_loaded, completed, remaining, gi, bi,
                   batch_results, overall, existing_data, prev, unit, workbook>>

\* does save_game_profile store the profile
StoresProfile(p) == p.status = "success"

\* (a save_game_profile that would leave the statistics as they are)
SaveGame_nocount ==
    /\ pc = "save_game"
    /\ LET p == game_profiles[Len(game_profiles)]
       IN IF StoresProfile(p)
          THEN LET doc == [mem EXCEPT !.game_profiles = Append(@, p)]
               IN /\ mem' = doc
                  /\ Save(doc)
          ELSE UNCHANGED <<mem, disk>>
    /\ pc' = "progress"
    /\ UNCHANGED <<clock, runs, run_locals, faults, calls, done,
                   existing_data, prev, unit, workbook>>

\* save_game_profile, lines 96-113 (called at line 624)
SaveGame ==
    /\ pc = "save_game"
    /\ LET p == game_profiles[Len(game_profiles)]
       IN IF StoresProfile(p)
          THEN LET doc == [mem EXCEPT
                             !.game_profiles = Append(@, p),
                             !.total_reviews = @ + p.total_reviews]
               IN /\ mem' = doc
                  /\ Save(doc)
          ELSE UNCHANGED <<mem, disk>>
    /\ pc' = "progress"
    /\ UNCHANGED <<clock, runs, run_locals, faults, calls, done,
                   existing_data, prev, unit, workbook>>

\* update_session_progress(game_name), lines 86-94 (called at line 627),
\* and the step of the for loop to the next game
Progress ==
    /\ pc = "progress"
    /\ LET doc == [mem EXCEPT !.completed_games = @ + 1]
       IN /\ mem' = doc
          /\ Save(doc)
    /\ gi' = gi + 1
    /\ bi' = 0
    /\ batch_results' = <<>>
    /\ pc' = LoopPc(remaining, gi + 1, batch_size)
    /\ UNCHANGED <<clock, runs, excel_file, batch_size, file,
                   session_loaded, completed, remaining, game_profiles,
                   overall, faults, calls, done, existing_data, prev, unit, workbook>>

\* line 635 false: the overall profile exists, lines 645-647
OverallSkip ==
    /\ pc = "overall"
    /\ mem.overall_profile # NoProfile
    /\ overall' = mem.overall_profile
    /\ pc' = "final"
    /\ UNCHANGED <<disk, clock, runs, excel_file, batch_size, file, mem,
                   session_loaded, completed, remaining, gi, bi,
                   batch_results, game_profiles, faults, calls, done,
                   existing_data, prev, unit, workbook>>

\* generate_overall_profile, lines 420-427: nothing to aggregate
OverallNoProfiles ==
    /\ pc = "overall"
    /\ mem.overall_profile = NoProfile
    /\ Successful(game_profiles) = <<>>
    /\ overall' = [kind |-> "overall", status |-> "failed",
                   error |-> "no_profiles"]
    /\ pc' = "final"
    /\ UNCHANGED <<disk, clock, runs, excel_file, batch_size, file, mem,
                   session_loaded, completed, remaining, gi, bi,
                   batch_results, game_profiles, faults, calls, done,
                   existing_data, prev, unit, workbook>>

\* generate_overall_profile, lines 430-437: ', '.join(profile.get('pros', []))
\* is evaluated before the try block and raises TypeError on a field that
\* is not a list of strings
JoinRaises(ps) == \E i \in 1..Len(ps) : ps[i].fields = "badtypes"

OverallRaise ==
    /\ pc = "overall"
    /\ mem.overall_profile = NoProfile
    /\ Successful(game_profiles) # <<>>
    /\ JoinRaises(Successful(game_profiles))
    /\ EndRun("raised", disk)
    /\ UNCHANGED <<disk, clock, runs, faults>>

\* generate_overall_profile, lines 483-552
OverallProfile(ps, resp) ==
    IF resp \in {"ok", "badtypes", "garbage"}
    THEN [kind |-> "overall",
          total_games |-> Len(ps),
          total_reviews |-> SumSeq(TotalReviews(ps)),
          fields |-> IF resp = "badtypes" THEN "badtypes" ELSE "strings",
          origin |-> IF resp = "garbage" THEN "fallback" ELSE "json",
          status |-> "success"]
    ELSE [kind |-> "overall", status |-> "failed", error |-> "exception"]

\* lines 635-638 with an oracle call
OverallCall(resp) ==
    /\ pc = "overall"
    /\ mem.overall_profile = NoProfile
    /\ Successful(game_profiles) # <<>>
    /\ ~JoinRaises(Successful(game_profiles))
    /\ LET p == OverallProfile(Successful(game_profiles), resp)
       IN /\ overall' = p
          /\ done' = done \cup {p}
          /\ pc' = IF p.status = "success" THEN "save_overall" ELSE "final"
    /\ Answer(resp)
    /\ calls' = Append(calls, [kind |-> "overall", game_name |-> "all",
                               batch_num |-> 0,
                               input |-> GameNames(Successful(game_profiles))])
    /\ UNCHANGED <<disk, clock, runs, excel_file, batch_size, file, mem,
                   session_loaded, completed, remaining, gi, bi,
                   batch_results, game_profiles, existing_data, prev, unit, workbook>>

\* (a save of the overall profile that would leave the status as it is)
SaveOverall_nostatus ==
    /\ pc = "save_overall"
    /\ LET doc == [mem EXCEPT !.overall_profile = overall]
       IN /\ mem' = doc
          /\ Save(doc)
    /\ pc' = "final"
    /\ UNCHANGED <<clock, runs, run_locals, faults, calls, done,
                   existing_data, prev, unit, workbook>>

\* lines 641-643: update_session_progress(overall_completed=True)
SaveOverall ==
    /\ pc = "save_overall"
    /\ LET doc == [mem EXCEPT !.overall_profile = overall,
                              !.status = "completed"]
       IN /\ mem' = doc
          /\ Save(doc)
    /\ pc' = "final"
    /\ UNCHANGED <<clock, runs, run_locals, faults, calls, done,
                   existing_data, prev, unit, workbook>>

\* the statistics of the returned result, lines 661-668
Statistics ==
    [status |-> "success",
     total_games |-> Len(GroupedGames(excel_file)),
     total_batches |-> Len(mem.batch_results),
     successful_batches |-> Len(Successful(mem.batch_results)),
     successful_games |-> Len(Successful(game_profiles)),
     attempts |-> Cardinality(Range(mem.batch_results))]

\* lines 649-685
Final ==
    /\ pc = "final"
    /\ Save(mem)
    /\ EndRun("success", [disk EXCEPT ![file] = mem])
    /\ UNCHANGED <<clock, runs, faults>>

\* KeyboardInterrupt between two steps (also while an oracle call is
\* waiting): main() catches it and leaves, main_user_profile.py:222-224
Interrupt ==
    /\ pc # "idle"
    /\ faults < MaxFaults
    /\ faults' = faults + 1
    /\ EndRun("interrupted", disk)
    /\ UNCHANGED <<disk, clock, runs>>

\* does the step at pc write the checkpoint file
Writes ==
    \/ pc \in {"save_init", "save_total", "save_batches", "progress",
               "save_overall", "final"}
    \/ pc = "save_game" /\ StoresProfile(game_profiles[Len(game_profiles)])

\* KeyboardInterrupt inside save_combined_profiles: open(..., 'w') has
\* truncated the file and json.dump has written only part of the document
InterruptSave ==
    /\ Writes
    /\ faults < MaxFaults
    /\ faults' = faults + 1
    /\ disk' = [disk EXCEPT ![file] = PartialFile]
    /\ EndRun("interrupted", [disk EXCEPT ![file] = PartialFile])
    /\ UNCHANGED <<clock, runs>>

Next ==
    \/ \E src \in Sources, bs \in BatchSizes, t \in 1..MaxRuns : StartRun(src, bs, t)
    \/ SaveInit
    \/ LoadFail
    \/ Load
    \/ SaveTotal
    \/ \E resp \in BatchResponses : AnalyzeBatch(resp)
    \/ SaveBatches
    \/ AggregateNoBatch
    \/ \E resp \in AggResponses : AggregateCall(resp)
    \/ SaveGame
    \/ Progress
    \/ OverallSkip
    \/ OverallNoProfiles
    \/ OverallRaise
    \/ \E resp \in AggResponses : OverallCall(resp)
    \/ SaveOverall
    \/ Final
    \/ Interrupt
    \/ InterruptSave

Spec == Init /\ [][Next]_vars

\* ------------------------------------------- the checkpoint write fails
\* (a writer that would catch the error of the first save and go on)
SaveFail_swallowed(cut) ==
    /\ pc = "save_init"
    /\ faults < MaxFaults
    /\ faults' = faults + 1
    /\ disk' = IF cut THEN [disk EXCEPT ![file] = PartialFile] ELSE disk
    /\ pc' = "load"
    /\ UNCHANGED <<clock, runs, run_locals, mem, calls, done,
                   existing_data, prev, unit, workbook>>

\* save_combined_profiles, lines 81-84, raises OSError: open() fails and
\* the file is as before, or the write fails after open(..., 'w') has
\* truncated the file (cut).  No caller up to analyze_user_profiles has
\* a try block around it; main() reports the error,
\* main_user_profile.py:225-227.
SaveFail(cut) ==
    /\ Writes
    /\ faults < MaxFaults
    /\ faults' = faults + 1
    /\ LET d == IF cut THEN [disk EXCEPT ![file] = PartialFile] ELSE disk
       IN /\ disk' = d
          /\ EndRun("raised", d)
    /\ UNCHANGED <<clock, runs>>

FailNext == Next \/ \E cut \in BOOLEAN : SaveFail(cut)

FailSpec == Init /\ [][FailNext]_vars

\* ------------------------------------------------- a run that goes on
\* one statement-level step of the running analyze_user_profiles
RunStep ==
    \/ SaveInit
    \/ LoadFail
    \/ Load
    \/ SaveTotal
    \/ \E resp \in BatchResponses : AnalyzeBatch(resp)
    \/ SaveBatches
    \/ AggregateNoBatch
    \/ \E resp \in AggResponses : AggregateCall(resp)
    \/ SaveGame
    \/ Progress
    \/ OverallSkip
    \/ OverallNoProfiles
    \/ OverallRaise
    \/ \E resp \in AggResponses : OverallCall(resp)
    \/ SaveOverall
    \/ Final

\* runs that nobody interrupts
FairNext ==
    \/ \E src \in Sources, bs \in BatchSizes, t \in 1..MaxRuns : StartRun(src, bs, t)
    \/ RunStep

\* The analyzer is one thread of straight-line code and loops over lists:
\* a started run takes its next step, and every oracle call returns or
\* raises (ollama.Client(timeout=300), line 18).
FairSpec == Init /\ [][FairNext]_vars /\ WF_vars(RunStep)

\* ---------------------------------------- the data file changes on disk
\* Between two runs the user saves the workbook at path X again without
\* the rows of game A.  The checkpoint records the path only
\* (excel_file, lines 66 and 573), nothing of the file's contents.
EditSource ==
    /\ pc = "idle"
    /\ runs < MaxRuns
    /\ workbook = <<"A", "B">>
    /\ workbook' = <<"B">>
    /\ UNCHANGED <<disk, clock, runs, pc, run_locals, mem, faults, calls,
                   done, existing_data, prev, unit>>

EditNext == Next \/ EditSource

EditSpec == Init /\ [][EditNext]_vars

\* --------------------------------- two analyzers within the same second
\* __init__, line 22: the file name is datetime.now() cut to the second,
\* so an analyzer created in the second of the one before (a run that
\* ended at once, input read from a script, a second process) gets the
\* name that analyzer had.  Lines 563-574 as in StartRun.
StartSameSecond(src, bs) ==
    /\ pc = "idle"
    /\ runs < MaxRuns
    /\ clock >= 1
    /\ runs' = runs + 1
    /\ excel_file' = src
    /\ batch_size' = bs
    /\ session_loaded' = load_existing_session(src)
    /\ IF load_existing_session(src)
       THEN /\ mem' = [disk[LatestFile] EXCEPT !.excel_file = src]
            /\ file' = LatestFile
            /\ existing_data' = disk[LatestFile]
       ELSE /\ mem' = [InitDoc(clock, bs) EXCEPT !.excel_file = src]
            /\ file' = clock
            /\ existing_data' = NoFile
    /\ pc' = "save_init"
    /\ calls' = <<>>
    /\ done' = {}
    /\ UNCHANGED <<disk, clock, completed, remaining, gi, bi, batch_results,
                   game_profiles, overall, faults, prev, unit, workbook>>

SecondNext ==
    \/ Next
    \/ \E src \in Sources, bs \in BatchSizes : StartSameSecond(src, bs)

SecondSpec == Init /\ [][SecondNext]_vars

\* ===================================================================
\* The functions of the analyzer, each called on its own
\* ===================================================================

\* required_fields, lines 378 and 518
required_fields == {"summary", "pros", "cons", "tags"}

\* the fields that are lists of strings
ListFields == {"pros", "cons", "tags"}

\* what a field of the oracle's JSON object can hold: a value of the
\* type asked for, or one of another type (null, a number)
FieldValues == {"given", "null"}

\* message.content of an aggregation answer:
\*   object    text that parses to a JSON object, with any of the fields
\*   nonobject text that parses to JSON that is no object
\*   garbage   text that json.loads rejects
\*   error     no answer, the call raised
Objects == UNION {[S -> FieldValues] : S \in SUBSET required_fields}

Contents ==
    {[kind |-> "object", data |-> d] : d \in Objects}
        \cup {[kind |-> k] : k \in {"nonobject", "garbage", "error"}}

\* re.search found no fenced block in the text
NoFence == [kind |-> "none"]

\* a JSON object with the four fields
FullObject == [kind |-> "object", data |-> [f \in required_fields |-> "given"]]

\* what the text between ``` and ``` can be when the answer is a fenced
\* block: JSON of any kind or not JSON
FencedContents ==
    {FullObject,
     [kind |-> "object", data |-> [f \in {"summary"} |-> "given"]],
     [kind |-> "nonobject"],
     [kind |-> "garbage"]}

\* what it can be when the fenced block stands inside a string value of
\* a JSON object (a text with a double quote is not JSON there, since
\* the quotes of a JSON string are escaped): {}, a number, or not JSON
QuotedFences ==
    {[kind |-> "object", data |-> [f \in {} |-> "given"]],
     [kind |-> "nonobject"],
     [kind |-> "garbage"]}

\* response['message']['content'] as a text, given by what json.loads
\* makes of the whole text (raw) and of the inside of the first fenced
\* block re.search finds in it (fence); or the call raised (error)
Responses ==
    {[kind |-> "text", raw |-> c, fence |-> NoFence] :
        c \in Contents \ {[kind |-> "error"]}}
        \cup {[kind |-> "text", raw |-> [kind |-> "garbage"], fence |-> c] :
                 c \in FencedContents}
        \cup {[kind |-> "text", raw |-> FullObject, fence |-> c] :
                 c \in QuotedFences}
        \cup {[kind |-> "error"]}

\* lines 368-370 and 508-510: json_match = re.search(r'```(?:json)?\n?(.*?)\n?```', ...);
\* if json_match: content = json_match.group(1).strip()
\* the text that is handed to json.loads
CleanedContent(response) ==
    IF response.kind = "error" THEN [kind |-> "error"]
    ELSE IF response.fence # NoFence THEN response.fence
    ELSE response.raw

\* lines 380-381 and 520-521: [] if field in ['pros','cons','tags'] else ""
DefaultValue(f) == IF f \in ListFields THEN "empty_list" ELSE "empty_string"

\* (a parser that would hand the oracle's object on as it is)
ProfileData_asis(data) == data

\* lines 378-393 and 518-531: the missing fields are filled, then the
\* four fields are copied into the profile
ProfileData(data) ==
    [f \in required_fields |->
        IF f \in DOMAIN data THEN data[f] ELSE DefaultValue(f)]

\* lines 397-407 and 535-545: the profile made up when json.loads fails
FallbackData ==
    [f \in required_fields |->
        IF f \in ListFields THEN "canned_list" ELSE "canned_summary"]

\* (a fallback with one tag)
FallbackLists_onetag ==
    [pros |-> <<"users_rate_positively">>,
     cons |-> <<"more_feedback_needed">>,
     tags |-> <<"user_reviews">>]

\* lines 402-404 and 540-542: the canned lists of the fallback profile,
\* ["用户评价积极"], ["需要更多反馈"], ["用户评价", "游戏体验"]
FallbackLists ==
    [pros |-> <<"users_rate_positively">>,
     cons |-> <<"more_feedback_needed">>,
     tags |-> <<"user_reviews", "game_experience">>]

\* line 401: f"基于{sum(...)}条评论的游戏画像", the numbers the text holds
GameFallbackSummary(rs) ==
    [reviews |-> SumSeq(ReviewCounts(Successful(rs)))]

\* line 539: f"基于{len(...)}款游戏，{sum(...)}条评论的整体用户画像"
OverallFallbackSummary(ps) ==
    [games |-> Len(Successful(ps)),
     reviews |-> SumSeq(TotalReviews(Successful(ps)))]

\* aggregate_game_profiles, lines 282-415
aggregate_game_profiles(g, rs, content) ==
    IF Successful(rs) = <<>> THEN NoBatchProfile(g)
    ELSE IF content.kind = "object"
    THEN [kind |-> "game",
          game_name |-> g,
          total_reviews |-> SumSeq(ReviewCounts(Successful(rs))),
          batch_count |-> Len(Successful(rs)),
          profile_data |-> ProfileData(content.data),
          status |-> "success"]
    ELSE IF content.kind = "garbage"
    THEN [kind |-> "game",
          game_name |-> g,
          total_reviews |-> SumSeq(ReviewCounts(Successful(rs))),
          batch_count |-> Len(Successful(rs)),
          profile_data |-> FallbackData,
          summary |-> GameFallbackSummary(rs),
          lists |-> FallbackLists,
          status |-> "success"]
    ELSE [kind |-> "game", game_name |-> g, status |-> "failed",
          error |-> "exception"]

\* lines 430-437: ', '.join(...) of a field that is no list of strings
JoinFails(ps) ==
    \E i \in 1..Len(ps) :
        \E f \in ListFields \cap DOMAIN ps[i].profile_data :
            ps[i].profile_data[f] = "null"

\* generate_overall_profile, lines 417-552; the TypeError of the prompt
\* building is raised to the caller
generate_overall_profile(ps, content) ==
    IF Successful(ps) = <<>>
    THEN [kind |-> "overall", status |-> "failed", error |-> "no_profiles"]
    ELSE IF JoinFails(Successful(ps)) THEN [kind |-> "raise", status |-> "raised"]
    ELSE IF content.kind = "object"
    THEN [kind |-> "overall",
          total_games |-> Len(Successful(ps)),
          total_reviews |-> SumSeq(TotalReviews(Successful(ps))),
          profile_data |-> ProfileData(content.data),
          status |-> "success"]
    ELSE IF content.kind = "garbage"
    THEN [kind |-> "overall",
          total_games |-> Len(Successful(ps)),
          total_reviews |-> SumSeq(TotalReviews(Successful(ps))),
          profile_data |-> FallbackData,
          summary |-> OverallFallbackSummary(ps),
          lists |-> FallbackLists,
          status |-> "success"]
    ELSE [kind |-> "overall", status |-> "failed", error |-> "exception"]

\* one game taken through split_into_batches, analyze_batch and
\* aggregate_game_profiles
GameUnit(n, bs) ==
    [op |-> "game", pc |-> "split", reviews |-> [i \in 1..n |-> i],
     batch_size |-> bs, batches |-> <<>>, results |-> <<>>,
     response |-> [kind |-> "none"], content |-> [kind |-> "none"],
     profile |-> NoProfile]

GameUnits == {GameUnit(n, bs) : n \in 0..MaxTexts, bs \in 1..MaxBatch}

UnitSplit ==
    /\ unit.op = "game" /\ unit.pc = "split"
    /\ LET batches == split_into_batches(unit.reviews, unit.batch_size)
       IN unit' = [unit EXCEPT
                     !.batches = batches,
                     !.pc = IF batches = <<>> THEN "aggregate" ELSE "analyze"]
    /\ UNCHANGED session_vars

UnitAnalyze(resp) ==
    /\ unit.op = "game" /\ unit.pc = "analyze"
    /\ LET k == Len(unit.results) + 1
           r == BatchResult("G", k, unit.batches[k], resp, k)
       IN unit' = [unit EXCEPT
                     !.results = Append(@, r),
                     !.pc = IF k = Len(unit.batches) THEN "aggregate"
                                                     ELSE "analyze"]
    /\ UNCHANGED session_vars

UnitAggregate(response) ==
    /\ unit.op = "game" /\ unit.pc = "aggregate"
    /\ unit' = [unit EXCEPT
                  !.response = response,
                  !.content = CleanedContent(response),
                  !.profile = aggregate_game_profiles("G", unit.results,
                                                      CleanedContent(response)),
                  !.pc = "done"]
    /\ UNCHANGED session_vars

\* answers that give the game profiles an overall aggregation starts from
SampleContents ==
    {[kind |-> "object", data |-> [f \in required_fields |-> "given"]],
     [kind |-> "object", data |-> [f \in {} |-> "given"]],
     [kind |-> "object",
      data |-> [f \in required_fields |-> IF f = "pros" THEN "null" ELSE "given"]],
     [kind |-> "error"]}

SampleProfiles(g) ==
    {aggregate_game_profiles(g, <<BatchResult(g, 1, <<1>>, "ok", 1)>>, c) :
        c \in SampleContents}
        \cup {NoBatchProfile(g)}

\* generate_overall_profile called with the profiles of up to two games
OverallUnit(ps) ==
    [op |-> "overall", pc |-> "call", profiles |-> ps,
     response |-> [kind |-> "none"], content |-> [kind |-> "none"],
     profile |-> NoProfile]

OverallUnits ==
    {OverallUnit(<<>>)}
        \cup {OverallUnit(<<a>>) : a \in SampleProfiles("A")}
        \cup {OverallUnit(<<a, b>>) :
                 a \in SampleProfiles("A"), b \in SampleProfiles("B")}

UnitOverall(response) ==
    /\ unit.op = "overall" /\ unit.pc = "call"
    /\ unit' = [unit EXCEPT
                  !.response = response,
                  !.content = CleanedContent(response),
                  !.profile = generate_overall_profile(unit.profiles,
                                                       CleanedContent(response)),
                  !.pc = "done"]
    /\ UNCHANGED session_vars

\* ------------------------------------------------ load_and_group_data
\* a cell that is missing in the sheet: pandas reads it as NaN
NaN == "<NaN>"

\* what the cells of the two columns can hold
NameCells == {NaN, "", " ", "A", " A", "B"}
TextCells == {NaN, "", " ", "t", "u"}

\* str(x) of a cell: the text of the cell, "nan" for NaN
Str(c) == IF c = NaN THEN "nan" ELSE c

\* s.strip()
Strip(s) == IF s = " " THEN "" ELSE IF s = " A" THEN "A" ELSE s

\* games_data[game_name].append(review_content) on a defaultdict(list),
\* kept as the list of its items in insertion order
AddReview(groups, name, text) ==
    IF \E i \in 1..Len(groups) : groups[i].game_name = name
    THEN [i \in 1..Len(groups) |->
             IF groups[i].game_name = name
             THEN [groups[i] EXCEPT !.reviews = Append(@, text)]
             ELSE groups[i]]
    ELSE Append(groups, [game_name |-> name, reviews |-> <<text>>])

\* lines 138-143: the loop over df.iterrows(), from row i on
RECURSIVE GroupFrom(_, _, _)
GroupFrom(rows, i, groups) ==
    IF i > Len(rows) THEN groups
    ELSE LET game_name == Strip(Str(rows[i].name))
             review_content == Strip(Str(rows[i].text))
         IN GroupFrom(rows, i + 1,
                      IF game_name # "" /\ review_content # ""
                      THEN AddReview(groups, game_name, review_content)
                      ELSE groups)

\* load_and_group_data, lines 126-150: the items of the returned dict
load_and_group_data(table) ==
    IF ~table.readable THEN <<>>
    ELSE IF ~(required_columns \subseteq table.columns) THEN <<>>
    ELSE GroupFrom(table.rows, 1, <<>>)

Rows(n) == [1..n -> [name : NameCells, text : TextCells]]

\* the files a load is tried on: one that cannot be opened, tables that
\* lack a required column, and tables of up to MaxRows rows
Tables ==
    {[readable |-> FALSE, columns |-> {}, rows |-> <<>>]}
        \cup {[readable |-> TRUE, columns |-> cs, rows |-> <<>>] :
                 cs \in (SUBSET required_columns) \ {required_columns}}
        \cup {[readable |-> TRUE, columns |-> required_columns, rows |-> rows] :
                 rows \in UNION {Rows(n) : n \in 0..MaxRows}}

LoadUnits ==
    {[op |-> "load", pc |-> "call", table |-> t, games_data |-> <<>>] :
        t \in Tables}

UnitLoad ==
    /\ unit.op = "load" /\ unit.pc = "call"
    /\ unit' = [unit EXCEPT
                  !.games_data = load_and_group_data(unit.table),
                  !.pc = "done"]
    /\ UNCHANGED session_vars

\* ------------------------------------------------------- robust_excel
\* how the attempts of safe_write_excel to write one table end:
\* df.to_excel to the file asked for, to the _temp file, to the _backup
\* file, and df.to_csv to the _emergency.csv file (an attempt that is
\* not made is given as "ok")
WriteEnvs ==
    {w \in [xlsx : {"ok", "permission", "oserror"}, temp : {"ok", "fail"},
            backup : {"ok", "fail"}, csv : {"ok", "fail"}] :
        /\ w.xlsx # "permission" => w.temp = "ok"
        /\ w.xlsx # "oserror" => w.backup = "ok"
        /\ w.backup = "ok" => w.csv = "ok"}

\* how the attempts of safe_write_multi_sheet_excel to write the
\* workbook end: at the file asked for and at the _temp file
MultiEnvs ==
    {m \in [xlsx : {"ok", "permission", "oserror"}, temp : {"ok", "fail"}] :
        m.xlsx # "permission" => m.temp = "ok"}

\* the outcome of a call: it returned these paths, or it raised
Returned(basic, detailed) ==
    [raised |-> FALSE, basic |-> basic, detailed |-> detailed]
Raised == [raised |-> TRUE, basic |-> "", detailed |-> ""]

\* safe_write_excel, lines 52-78: the path written, or "raise" when the
\* last attempt of the branch taken raises
safe_write_excel(w) ==
    IF w.xlsx = "ok" THEN "primary"
    ELSE IF w.xlsx = "permission"
    THEN IF w.temp = "ok" THEN "temp" ELSE "raise"
    ELSE IF w.backup = "ok" THEN "backup"
    ELSE IF w.csv = "ok" THEN "csv" ELSE "raise"

\* safe_write_excel, lines 52-78: the writes it tries, in order
write_attempts(w) ==
    IF w.xlsx = "ok" THEN <<"primary">>
    ELSE IF w.xlsx = "permission" THEN <<"primary", "temp">>
    ELSE IF w.backup = "ok" THEN <<"primary", "backup">>
    ELSE <<"primary", "backup", "csv">>

\* _emergency_save_multiple, lines 152-170, for the two sheets: each
\* sheet is written by safe_write_excel inside try/except, the first
\* path saved is returned
emergency_save_multiple(e1, e2) ==
    IF safe_write_excel(e1) # "raise" THEN safe_write_excel(e1)
    ELSE IF safe_write_excel(e2) # "raise" THEN safe_write_excel(e2)
    ELSE ""

\* safe_write_multi_sheet_excel, lines 109-150
safe_write_multi_sheet_excel(m, e1, e2) ==
    IF m.xlsx = "ok" THEN "primary"
    ELSE IF m.xlsx = "permission" /\ m.temp = "ok" THEN "temp"
    ELSE emergency_save_multiple(e1, e2)

\* what the JSON file handed to the export can be: no such file, a file
\* that does not parse, an empty list, a JSON object (such as a
\* checkpoint document), a list of result rows
ExportInputs == {"missing", "partial", "empty", "object", "rows"}

\* the body of the try block of export_analysis_results, lines 183-245
export_body(input, w, m, e1, e2) ==
    IF input \in {"missing", "partial", "object"} THEN Raised
    ELSE IF input = "empty" THEN Returned("", "")
    ELSE IF safe_write_excel(w) = "raise" THEN Raised
    ELSE Returned(safe_write_excel(w), safe_write_multi_sheet_excel(m, e1, e2))

\* (an export without its except clauses)
except_Exception_none(r) == r

\* except Exception as e: the error is printed and the function returns
\* without a path (lines 247-249, and 286-287)
except_Exception(r) == IF r.raised THEN Returned("", "") ELSE r

\* export_analysis_to_excel_robust, lines 254-264, is export_analysis_results
export_analysis_results(input, w, m, e1, e2) ==
    except_Exception(export_body(input, w, m, e1, e2))

\* the body of the try block of auto_export_on_interrupt_robust, lines
\* 274-284; the function returns None, given here as no path
auto_export_body(input, w, m, e1, e2) ==
    IF input = "missing" THEN Returned("", "")
    ELSE IF export_analysis_results(input, w, m, e1, e2).raised THEN Raised
    ELSE Returned("", "")

\* auto_export_on_interrupt_robust, lines 266-287, with its own
\* except Exception clause (lines 286-287)
auto_export_on_interrupt_robust(input, w, m, e1, e2) ==
    except_Exception(auto_export_body(input, w, m, e1, e2))

\* a call of the export on a JSON file, with the way the writes end:
\* w for the basic table, m for the workbook, e1 and e2 for its sheets
\* written one by one
ExportUnits ==
    {[op |-> o, pc |-> "call", input |-> i, w |-> w, m |-> m,
      e1 |-> e1, e2 |-> e2, result |-> Returned("", "")] :
        o \in {"export", "auto_export"}, i \in ExportInputs,
        w \in WriteEnvs, m \in MultiEnvs, e1 \in WriteEnvs, e2 \in WriteEnvs}

UnitExport ==
    /\ unit.op = "export" /\ unit.pc = "call"
    /\ unit' = [unit EXCEPT
                  !.result = export_analysis_results(unit.input, unit.w,
                                                     unit.m, unit.e1, unit.e2),
                  !.pc = "done"]
    /\ UNCHANGED session_vars

UnitAutoExport ==
    /\ unit.op = "auto_export" /\ unit.pc = "call"
    /\ unit' = [unit EXCEPT
                  !.result = auto_export_on_interrupt_robust(
                                 unit.input, unit.w, unit.m, unit.e1, unit.e2),
                  !.pc = "done"]
    /\ UNCHANGED session_vars

FnInit ==
    /\ SessionInit
    /\ unit \in GameUnits \cup OverallUnits \cup LoadUnits \cup ExportUnits

FnNext ==
    \/ UnitSplit
    \/ \E resp \in BatchResponses : UnitAnalyze(resp)
    \/ \E response \in Responses : UnitAggregate(response)
    \/ \E response \in Responses : UnitOverall(response)
    \/ UnitLoad
    \/ UnitExport
    \/ UnitAutoExport

FnSpec == FnInit /\ [][FnNext]_vars

\* ===================================================================
\* The per-review pipeline, main.py
\* ===================================================================

\* reviews_df as load_reviews returns it: rows of game name and review
\* text, in which texts can repeat under the same or another game
ReviewTables ==
    UNION {[1..n -> [game_name : {"A", "B"}, review_content : {"t", "u"}]] :
              n \in 0..MaxRows}

\* analysis_results.json: no such file, a list of result records, or a
\* file whose write was cut short
NoResults == [kind |-> "none"]
ResultList(rs) == [kind |-> "list", results |-> rs]
CutResults == [kind |-> "partial"]

\* main.py started on a table, with no results file yet
MainUnit(rows) ==
    [op |-> "main", pc |-> "idle", rows |-> rows, file |-> NoResults,
     all_results |-> <<>>, todo |-> <<>>, pos |-> 0, runs |-> 0,
     faults |-> 0, calls |-> <<>>, failed |-> {}, prev_failed |-> {},
     outcome |-> "none", lost |-> <<>>]

MainUnits == {MainUnit(rows) : rows \in ReviewTables}

\* lines 100-108: the record appended for a row (the fields the oracle
\* gave are left out)
ResultOf(row) ==
    [game_name |-> row.game_name, review_content |-> row.review_content]

\* line 79: {res['review_content'] for res in all_results}
processed_reviews(rs) == {rs[i].review_content : i \in 1..Len(rs)}

\* line 83: reviews_df[~reviews_df['长评内容'].isin(processed_reviews)],
\* as the positions of the rows kept
reviews_to_process(rows, rs) ==
    SelectSeq([i \in 1..Len(rows) |-> i],
              LAMBDA i : rows[i].review_content \notin processed_reviews(rs))

\* the process is gone: by return, by sys.exit or by an exception
MainEnd(u, how) ==
    [u EXCEPT !.pc = "idle", !.outcome = how, !.all_results = <<>>,
              !.todo = <<>>, !.pos = 0, !.calls = <<>>, !.failed = {},
              !.prev_failed = u.failed]

\* lines 76-88, load_existing_results finds no file or a list
MainStart ==
    /\ unit.op = "main" /\ unit.pc = "idle"
    /\ unit.runs < MaxRuns
    /\ unit.file # CutResults
    /\ LET rs == IF unit.file = NoResults THEN <<>> ELSE unit.file.results
           todo == reviews_to_process(unit.rows, rs)
       IN unit' = [unit EXCEPT
                     !.runs = @ + 1,
                     !.all_results = rs,
                     !.todo = todo,
                     !.pos = 1,
                     !.lost = <<>>,
                     !.pc = IF todo = <<>> THEN "final" ELSE "call"]
    /\ UNCHANGED session_vars

\* line 76 with a file that json.load rejects: load_existing_results
\* has no try block, the JSONDecodeError ends main()
MainStartRaises ==
    /\ unit.op = "main" /\ unit.pc = "idle"
    /\ unit.runs < MaxRuns
    /\ unit.file = CutResults
    /\ unit' = MainEnd([unit EXCEPT !.runs = @ + 1, !.lost = <<>>], "raised")
    /\ UNCHANGED session_vars

\* where the loop goes after the row at position pos of todo
MainLoopPc(u) == IF u.pos + 1 > Len(u.todo) THEN "final" ELSE "call"

\* lines 94-108 and 117-118: analyze_review_full(review_content); a dict
\* is appended to all_results, None (the call raised, or the JSON lacks
\* a key) is reported and the loop goes on
MainAnalyze(resp) ==
    /\ unit.op = "main" /\ unit.pc = "call"
    /\ resp = "none" => unit.faults < MaxFaults
    /\ LET i == unit.todo[unit.pos]
           called == [unit EXCEPT !.calls = Append(@, i)]
       IN unit' = IF resp = "ok"
                  THEN [called EXCEPT
                          !.all_results = Append(@, ResultOf(unit.rows[i])),
                          !.pc = "save"]
                  ELSE [called EXCEPT
                          !.faults = @ + 1,
                          !.failed = @ \cup {i},
                          !.pos = @ + 1,
                          !.pc = MainLoopPc(unit)]
    /\ UNCHANGED session_vars

\* lines 111-115: save_results, then the Excel export, which does not
\* touch the JSON file and does not raise (try_export_excel_robust)
MainSave ==
    /\ unit.op = "main" /\ unit.pc = "save"
    /\ unit' = [unit EXCEPT
                  !.file = ResultList(unit.all_results),
                  !.pos = @ + 1,
                  !.pc = MainLoopPc(unit)]
    /\ UNCHANGED session_vars

\* lines 138-148: the run is over
MainFinal ==
    /\ unit.op = "main" /\ unit.pc = "final"
    /\ unit' = MainEnd(unit, "finished")
    /\ UNCHANGED session_vars

\* SIGINT or SIGTERM while main() runs, lines 16-22 and 58-59: main()
\* has replaced Python's SIGINT handler, so no KeyboardInterrupt is
\* raised; signal_handler exports from the file on disk and calls
\* sys.exit(0).  SystemExit is neither KeyboardInterrupt nor Exception:
\* the except clauses of lines 120 and 131 do not run and all_results
\* is not saved.  lost keeps what was in memory.
MainSignal ==
    /\ unit.op = "main" /\ unit.pc \in {"call", "save", "final"}
    /\ unit.faults < MaxFaults
    /\ unit' = MainEnd([unit EXCEPT !.faults = @ + 1,
                                    !.lost = unit.all_results], "exit")
    /\ UNCHANGED session_vars

\* the signal arrives inside save_results, lines 35-36: open(..., 'w')
\* has truncated the file and json.dump has written part of the list
\* when SystemExit leaves the with block
MainSignalInSave ==
    /\ unit.op = "main" /\ unit.pc = "save"
    /\ unit.faults < MaxFaults
    /\ unit' = MainEnd([unit EXCEPT !.faults = @ + 1,
                                    !.file = CutResults,
                                    !.lost = unit.all_results], "exit")
    /\ UNCHANGED session_vars

MainInit ==
    /\ SessionInit
    /\ unit \in MainUnits

MainNext ==
    \/ MainStart
    \/ MainStartRaises
    \/ \E resp \in {"ok", "none"} : MainAnalyze(resp)
    \/ MainSave
    \/ MainFinal
    \/ MainSignal
    \/ MainSignalInSave

MainSpec == MainInit /\ [][MainNext]_vars

\* ===================================================================
\* The batch size typed at the prompt, main_user_profile.py
\* ===================================================================

\* what the user can type at "请输入批次大小 (默认20)": nothing, a text
\* that is no number, or a number
TypedSizes == {"", "x", "-1", "0", "1", "2"}

\* int(s) raises ValueError
ValueError(s) == s = "x"

\* int(s) of a text that is a number
IntOf(s) ==
    IF s = "-1" THEN -1
    ELSE IF s = "0" THEN 0
    ELSE IF s = "1" THEN 1
    ELSE 2

\* lines 165-170: int(batch_size) if batch_size else 20, and 20 on
\* ValueError; the number is not looked at any further
TypedBatchSize(s) == IF s = "" \/ ValueError(s) THEN 20 ELSE IntOf(s)

\* range(0, len(reviews), batch_size), line 155: a step of 0 raises
\* ValueError
RangeRaises(step) == step = 0

\* the batches split_into_batches returns for any step but 0: range()
\* with a negative step from 0 is empty
BatchesOf(reviews, step) ==
    IF step < 0 THEN <<>> ELSE split_into_batches(reviews, step)

\* one game of n reviews analysed with the batch size typed
CliUnit(typed, n) ==
    [op |-> "cli", pc |-> "input", typed |-> typed, batch_size |-> 20,
     reviews |-> [i \in 1..n |-> i], batches |-> <<>>, results |-> <<>>,
     raised |-> FALSE, profile |-> NoProfile]

CliUnits == {CliUnit(typed, n) : typed \in TypedSizes, n \in 0..MaxTexts}

\* lines 165-177: the analyzer is created with the number typed
CliConfigure ==
    /\ unit.op = "cli" /\ unit.pc = "input"
    /\ unit' = [unit EXCEPT !.batch_size = TypedBatchSize(unit.typed),
                            !.pc = "split"]
    /\ UNCHANGED session_vars

\* line 603: split_into_batches; its ValueError leaves
\* analyze_user_profiles, which has no try block
CliSplit ==
    /\ unit.op = "cli" /\ unit.pc = "split"
    /\ unit' = IF RangeRaises(unit.batch_size)
               THEN [unit EXCEPT !.raised = TRUE, !.pc = "done"]
               ELSE LET batches == BatchesOf(unit.reviews, unit.batch_size)
                    IN [unit EXCEPT
                          !.batches = batches,
                          !.pc = IF batches = <<>> THEN "aggregate"
                                                   ELSE "analyze"]
    /\ UNCHANGED session_vars

\* lines 607-612
CliAnalyze(resp) ==
    /\ unit.op = "cli" /\ unit.pc = "analyze"
    /\ LET k == Len(unit.results) + 1
           r == BatchResult("G", k, unit.batches[k], resp, k)
       IN unit' = [unit EXCEPT
                     !.results = Append(@, r),
                     !.pc = IF k = Len(unit.batches) THEN "aggregate"
                                                     ELSE "analyze"]
    /\ UNCHANGED session_vars

\* lines 619-620
CliAggregate(response) ==
    /\ unit.op = "cli" /\ unit.pc = "aggregate"
    /\ unit' = [unit EXCEPT
                  !.profile = aggregate_game_profiles("G", unit.results,
                                                      CleanedContent(response)),
                  !.pc = "done"]
    /\ UNCHANGED session_vars

CliInit ==
    /\ SessionInit
    /\ unit \in CliUnits

CliNext ==
    \/ CliConfigure
    \/ CliSplit
    \/ \E resp \in BatchResponses : CliAnalyze(resp)
    \/ \E response \in {[kind |-> "text", raw |-> FullObject, fence |-> NoFence],
                        [kind |-> "error"]} : CliAggregate(response)

CliSpec == CliInit /\ [][CliNext]_vars

\* ===================================================================
\* Properties
\* ===================================================================

\* the run is about to call the oracle
AtOracleCall ==
    \/ pc = "batch"
    \/ pc = "aggregate" /\ Successful(batch_results) # <<>>
    \/ /\ pc = "overall"
       /\ mem.overall_profile = NoProfile
       /\ Successful(game_profiles) # <<>>
       /\ ~JoinRaises(Successful(game_profiles))

\* the current run follows an interrupted run on the same data file
Resumed ==
    /\ pc # "idle"
    /\ prev.outcome = "interrupted"
    /\ prev.excel_file = excel_file

\* C1: whenever an oracle call is about to start, the checkpoint file
\* holds the result of every oracle call this run has completed.
C1_PersistedBeforeNextCall ==
    AtOracleCall => \A r \in done : InDoc(r, disk[file])

\* C2: a run that resumes an interrupted run on the same data file sends
\* no batch to the oracle whose call completed in the interrupted run.
C2_NoBatchRedone ==
    Resumed =>
        \A i \in 1..Len(calls) :
            calls[i].kind = "batch" =>
                <<calls[i].game_name, calls[i].batch_num>> \notin prev.batches

\* position of game g in the table
PosIn(games, g) == CHOOSE i \in 1..Len(games) : games[i] = g

\* the oracle calls of the current run that concern one game
GameCalls == SelectSeq(calls, LAMBDA c : c.kind # "overall")

StartedDone ==
    /\ pc # "idle"
    /\ existing_data.kind = "doc"
    /\ existing_data.overall_profile # NoProfile
    /\ existing_data.status = "completed"

\* C4: a run on a DONE checkpoint makes no oracle call and leaves the
\* checkpoint document as it was.
C4_DoneIsIdempotent ==
    StartedDone => calls = <<>> /\ disk[file] = existing_data

\* the documents on disk
Documents == {t \in DOMAIN disk : disk[t].kind = "doc"}

\* is sequence s a prefix of sequence u
IsPrefix(s, u) == Len(s) <= Len(u) /\ SubSeq(u, 1, Len(s)) = s

\* C5: batch_results of every checkpoint holds each batch attempt once,
\* the total_batches a run returns is the number of batch attempts, and
\* the entries of a checkpoint document are never modified or removed by
\* a later write of the document.
C5_OneEntryPerAttempt ==
    /\ [](\A t \in Documents :
             \A i, j \in 1..Len(disk[t].batch_results) :
                 i # j => disk[t].batch_results[i] # disk[t].batch_results[j])
    /\ [](pc = "final" => Statistics.total_batches = Statistics.attempts)
    /\ [][\A t \in Documents :
             disk'[t].kind = "doc"
                 => IsPrefix(disk[t].batch_results, disk'[t].batch_results)]_vars

\* the run has just chosen its checkpoint document (the files are still
\* as load_existing_session found them)
SessionChosen == pc = "save_init"

\* checkpoints recorded for data file src
Matching(src) == {t \in Documents : disk[t].excel_file = src}

C7_OverallImpliesAllGames ==
    \A t \in Documents :
        disk[t].overall_profile # NoProfile =>
            Range(GroupedGames(disk[t].excel_file)) \subseteq ProfileKeys(disk[t])

\* C8: no checkpoint file is ever left partially written.
C8_NeverPartial ==
    \A t \in DOMAIN disk : disk[t].kind # "partial"

\* C9: when a run ends by an interrupt, every result it has computed is
\* in its checkpoint file.
C9_FlushOnInterrupt ==
    [][(pc # "idle" /\ pc' = "idle" /\ prev'.outcome = "interrupted")
          => \A r \in done : InDoc(r, disk'[file])]_vars

\* C10: no answer of the oracle makes analyze_user_profiles raise.
C10_NeverRaises ==
    prev.outcome # "raised"

\* the batches of the game being processed
CurrentBatches == split_into_batches(Reviews(remaining[gi]), batch_size)

\* the batch numbers of the results in rs that have status success
SuccessNums(rs) ==
    LET ok == SelectSeq(rs, LAMBDA r : r.status = "success")
    IN [i \in 1..Len(ok) |-> ok[i].batch_num]

\* C11: a batch whose oracle call fails gets a result with status failed
\* that carries the error text; the results of the other batches are
\* left as they are and the next batch is analysed, so that every batch
\* of the game has been attempted when the game is aggregated; the
\* aggregation call is given the successful batches and no other.
C11_FailedBatchDoesNotAbort ==
    /\ [][(pc = "batch" /\ pc' # "idle") =>
             LET n == Len(batch_results')
                 r == batch_results'[n]
             IN /\ n = Len(batch_results) + 1
                /\ SubSeq(batch_results', 1, n - 1) = batch_results
                /\ r.batch_num = n
                /\ r.status = IF faults' > faults THEN "failed" ELSE "success"
                /\ r.status = "failed" => r.analysis = "error_text"
                /\ pc' = IF n < Len(CurrentBatches) THEN "batch"
                                                   ELSE "save_batches"]_vars
    /\ [](pc \in {"save_batches", "aggregate", "save_game"} =>
             /\ Len(batch_results) = Len(CurrentBatches)
             /\ \A i \in 1..Len(batch_results) : batch_results[i].batch_num = i)
    /\ [](pc = "save_game" =>
             LET last == IF calls = <<>> THEN [kind |-> "none"]
                         ELSE calls[Len(calls)]
             IN IF SuccessNums(batch_results) = <<>>
                THEN /\ last.kind # "game"
                     /\ game_profiles[Len(game_profiles)].status = "failed"
                ELSE /\ last.kind = "game"
                     /\ last.game_name = remaining[gi]
                     /\ last.input = SuccessNums(batch_results))

\* C11 witness: the first batch of a game failed, the second succeeded
\* and the game has been aggregated into a profile.
C11_Witness ==
    /\ pc = "save_game"
    /\ Len(batch_results) = 2
    /\ batch_results[1].status = "failed"
    /\ batch_results[2].status = "success"
    /\ game_profiles[Len(game_profiles)].status = "success"

\* the oracle calls of the current run that build the overall profile
OverallCalls == SelectSeq(calls, LAMBDA c : c.kind = "overall")

\* the profiles with status failed that the current run holds
FailedProfiles == {p \in Range(game_profiles) : p.status = "failed"}

\* C12: a game all of whose batches failed gets a profile with status
\* failed; no overall aggregation is given a game whose profile has
\* status failed, only games that have a profile with status success;
\* and no profile with status failed is in a checkpoint, where a later
\* run would pick it up.
C12_FailedEntityExcluded ==
    /\ (pc = "save_game" /\ \A i \in 1..Len(batch_results) :
                                batch_results[i].status = "failed")
           => game_profiles[Len(game_profiles)].status = "failed"
    /\ \A i \in 1..Len(OverallCalls) :
           /\ \A p \in FailedProfiles :
                  p.game_name \notin Range(OverallCalls[i].input)
           /\ \A g \in Range(OverallCalls[i].input) :
                  \E p \in Range(game_profiles) :
                      p.game_name = g /\ p.status = "success"
    /\ \A t \in Documents :
           \A p \in Range(disk[t].game_profiles) : p.status = "success"

\* C12 witness: every batch of a game failed and the overall profile of
\* the run has been aggregated from the other game.
C12_Witness ==
    /\ OverallCalls # <<>>
    /\ \E p \in FailedProfiles : p.error = "all_batches_failed"

\* a call of aggregate_game_profiles or generate_overall_profile has
\* returned a profile with status success
ProfileReturned ==
    /\ unit.op \in {"game", "overall"}
    /\ unit.pc = "done"
    /\ unit.profile.status = "success"

\* C13: a game profile or overall profile with status success holds the
\* four fields summary, pros, cons and tags; when the oracle answered
\* with a JSON object, a field of the object is kept, a field the object
\* lacks is the empty string (summary) or the empty list (pros, cons,
\* tags), and the profile has status success whatever fields the object
\* has (for the overall profile: whenever the call returns).
C13_RequiredKeysFilled ==
    /\ ProfileReturned =>
           /\ DOMAIN unit.profile.profile_data
                  = {"summary", "pros", "cons", "tags"}
           /\ unit.content.kind = "object" =>
                  \A f \in {"summary", "pros", "cons", "tags"} :
                      unit.profile.profile_data[f] =
                          IF f \in DOMAIN unit.content.data
                          THEN unit.content.data[f]
                          ELSE IF f = "summary" THEN "empty_string"
                               ELSE "empty_list"
    /\ (/\ unit.op = "game" /\ unit.pc = "done"
        /\ unit.content.kind = "object"
        /\ \E i \in 1..Len(unit.results) : unit.results[i].status = "success")
           => unit.profile.status = "success"
    /\ (/\ unit.op = "overall" /\ unit.pc = "done"
        /\ unit.content.kind = "object"
        /\ \E i \in 1..Len(unit.profiles) : unit.profiles[i].status = "success"
        /\ unit.profile.status # "raised")
           => unit.profile.status = "success"

\* C13 witness: the oracle's object had only the field tags and the
\* profile came out with status success.
C13_Witness ==
    /\ ProfileReturned
    /\ unit.content.kind = "object"
    /\ DOMAIN unit.content.data = {"tags"}

\* the review_count of each batch result that has status success, and 0
\* for the others
CountedReviews(rs) ==
    [i \in 1..Len(rs) |->
        IF rs[i].status = "success" THEN rs[i].review_count ELSE 0]

\* C14: the total_reviews of a game profile with status success is the
\* sum of review_count over the batch results with status success and
\* its batch_count is their number; when all batches of a game with n
\* reviews and batch size B succeeded, total_reviews is n and
\* batch_count is the least k with k * B >= n.
C14_TotalReviews ==
    (unit.op = "game" /\ unit.pc = "done" /\ unit.profile.status = "success") =>
        LET rs == unit.results
            ok == {i \in 1..Len(rs) : rs[i].status = "success"}
            n == Len(unit.reviews)
            k == unit.profile.batch_count
        IN /\ unit.profile.total_reviews = SumSeq(CountedReviews(rs))
           /\ k = Cardinality(ok)
           /\ ok = 1..Len(rs) =>
                  /\ unit.profile.total_reviews = n
                  /\ k * unit.batch_size >= n
                  /\ (k - 1) * unit.batch_size < n

\* C14 witness: three reviews in batches of two, both batches succeeded.
C14_Witness ==
    /\ unit.op = "game" /\ unit.pc = "done"
    /\ Len(unit.reviews) = 3 /\ unit.batch_size = 2
    /\ \A i \in 1..Len(unit.results) : unit.results[i].status = "success"
    /\ unit.profile.status = "success"
    /\ unit.profile.total_reviews = 3
    /\ unit.profile.batch_count = 2

\* the batches put one after the other
RECURSIVE Flatten(_)
Flatten(bs) == IF bs = <<>> THEN <<>> ELSE Head(bs) \o Flatten(Tail(bs))

\* C15: for n reviews and a batch size B >= 1, split_into_batches gives
\* the least number k of batches with k * B >= n (none for n = 0); every
\* batch but the last has B reviews, the last has n mod B, or B when B
\* divides n; and the batches put one after the other are the reviews
\* in their order.
C15_BatchesPartition ==
    (unit.op = "game" /\ unit.pc # "split") =>
        LET n == Len(unit.reviews)
            B == unit.batch_size
            k == Len(unit.batches)
        IN /\ k * B >= n
           /\ (k - 1) * B < n
           /\ n = 0 => k = 0
           /\ \A i \in 1..k :
                  Len(unit.batches[i]) =
                      IF i < k \/ n % B = 0 THEN B ELSE n % B
           /\ Flatten(unit.batches) = unit.reviews

\* C15 witness: three reviews split into a batch of two and a batch of one.
C15_Witness ==
    /\ unit.op = "game" /\ unit.pc # "split"
    /\ unit.batch_size = 2
    /\ unit.batches = << <<1, 2>>, <<3>> >>

\* the run works on a table that lacks a required column
BadSource ==
    /\ pc # "idle"
    /\ \E c \in {"name", "text"} : c \notin Columns(excel_file)

\* C16: a run on a table that lacks a required column gets no further
\* than the load: it calls the oracle never, its document has no games,
\* no batch results and no profiles, and unless the user interrupts it
\* first it ends at the load reporting failure.
C16_LoadFailureStopsRun ==
    /\ [](BadSource =>
             /\ pc \in {"save_init", "load"}
             /\ calls = <<>>
             /\ mem.total_games = 0
             /\ mem.game_profiles = <<>>
             /\ mem.batch_results = <<>>)
    /\ [][(BadSource /\ pc = "load" /\ faults' = faults) =>
             (pc' = "idle" /\ prev'.outcome = "failed")]_vars

\* C16 witness: a run on the table without the text column has reported
\* failure.
C16_Witness ==
    /\ prev.outcome = "failed"
    /\ "text" \notin Columns(prev.excel_file)

\* a cell that is missing, or empty once trimmed
Blank(c) == c \in {NaN, "", " "}

\* the rows of the table that have both fields
CompleteRows(rows) ==
    SelectSeq(rows, LAMBDA r : ~Blank(r.name) /\ ~Blank(r.text))

ReviewLengths(groups) == [i \in 1..Len(groups) |-> Len(groups[i].reviews)]

\* C17: the grouped output of a table is made of the rows that have a
\* game name and a text, both non-empty once trimmed: it holds one text
\* for each such row, under that row's game name, and nothing for a row
\* with a missing or empty cell.
C17_IncompleteRowsDropped ==
    (/\ unit.op = "load" /\ unit.pc = "done"
     /\ unit.table.readable
     /\ unit.table.columns = {"name", "text"}) =>
        LET kept == CompleteRows(unit.table.rows)
        IN /\ SumSeq(ReviewLengths(unit.games_data)) = Len(kept)
           /\ \A i \in 1..Len(unit.games_data) :
                  \E k \in 1..Len(kept) :
                      Strip(kept[k].name) = unit.games_data[i].game_name

\* C18: export_analysis_to_excel_robust and
\* auto_export_on_interrupt_robust return to their caller, whatever the
\* JSON file holds and however each attempt to write a file ends.
C18_ExportNeverRaises ==
    (unit.op \in {"export", "auto_export"} /\ unit.pc = "done")
        => ~unit.result.raised

\* C18 witness: the file asked for was in use, the write of the _temp
\* file failed too, and the export returned without a path.
C18_Witness ==
    /\ unit.op = "export" /\ unit.pc = "done"
    /\ unit.input = "rows"
    /\ unit.w.xlsx = "permission" /\ unit.w.temp = "fail"
    /\ unit.result = [raised |-> FALSE, basic |-> "", detailed |-> ""]

\* the games of the table before position k all had a stored profile
\* when the run looked (line 586), as had those between positions j and k
SkippedBetween(j, k) ==
    \A n \in (j + 1)..(k - 1) : GroupedGames(excel_file)[n] \in completed

\* C19: the run makes its oracle calls one at a time, each completed
\* before the next is made: the batches of a game in increasing order
\* from 1, then the aggregation of the game after its last batch, then
\* the next game of the table that had no stored profile, and the
\* overall aggregation last; no call concerns a game that had a stored
\* profile.
C19_StrictlySequential ==
    LET games == GroupedGames(excel_file)
        NBatches(g) == Len(split_into_batches(Reviews(g), batch_size))
    IN /\ Cardinality(done) = Len(calls)
       /\ \A i \in 1..Len(calls) :
              calls[i].kind # "overall" => calls[i].game_name \notin completed
       /\ calls # <<>> =>
              \/ calls[1].kind = "overall"
              \/ /\ calls[1].kind = "batch" /\ calls[1].batch_num = 1
                 /\ SkippedBetween(0, PosIn(games, calls[1].game_name))
       /\ \A i \in 1..(Len(calls) - 1) :
              LET c == calls[i]
                  d == calls[i + 1]
              IN /\ c.kind # "overall"
                 /\ d.kind = "game" =>
                        /\ c.kind = "batch" /\ c.game_name = d.game_name
                        /\ c.batch_num = NBatches(c.game_name)
                 /\ (d.kind = "batch" /\ d.game_name = c.game_name) =>
                        /\ c.kind = "batch"
                        /\ d.batch_num = c.batch_num + 1
                 /\ (d.kind = "batch" /\ d.game_name # c.game_name) =>
                        /\ d.batch_num = 1
                        /\ PosIn(games, c.game_name) < PosIn(games, d.game_name)
                        /\ SkippedBetween(PosIn(games, c.game_name),
                                          PosIn(games, d.game_name))
                        /\ c.kind = "batch" => c.batch_num = NBatches(c.game_name)

\* C19 witness: the run has sent both batches of the first game, then
\* its aggregation, then the batch of the second game.
C19_Witness ==
    /\ Len(calls) >= 4
    /\ calls[1].kind = "batch" /\ calls[1].game_name = "A"
    /\ calls[2].kind = "batch" /\ calls[2].game_name = "A"
    /\ calls[3].kind = "game" /\ calls[3].game_name = "A"
    /\ calls[4].kind = "batch" /\ calls[4].game_name = "B"

\* the state of the session a checkpoint file stands for:
\*   0 NEW                 no file
\*   1 LOADING             a document without batch results and profiles
\*   2 PROCESSING          results, not yet a profile for every game
\*   3 AGGREGATING_GLOBAL  a profile for every game, no overall profile
\*   4 DONE                the overall profile, status completed
SessionState(d) ==
    IF d.kind # "doc" THEN 0
    ELSE IF d.overall_profile # NoProfile THEN 4
    ELSE IF d.total_games > 0 /\ Len(d.game_profiles) >= d.total_games THEN 3
    ELSE IF d.batch_results # <<>> \/ d.game_profiles # <<>> THEN 2
    ELSE 1

\* how far the running analyze_user_profiles has come
RunState ==
    IF pc = "save_init" THEN 0
    ELSE IF pc \in {"load", "save_total"} THEN 1
    ELSE IF pc \in {"batch", "save_batches", "aggregate", "save_game",
                     "progress"} THEN 2
    ELSE IF pc \in {"overall", "save_overall"} THEN 3
    ELSE 4

\* this step calls generate_overall_profile
OverallAttempt ==
    /\ pc = "overall"
    /\ \/ Len(calls') = Len(calls) + 1
       \/ pc' = "final" /\ overall'.status = "failed"
       \/ pc' = "idle" /\ prev'.outcome = "raised"

CurrentEntities == Range(GroupedGames(excel_file))

\* C21: in every state of a run, also right after a checkpoint recorded
\* for the same path was taken up again, the keys of game_profiles are
\* games of the current data file.
C21_KeysWithinSource ==
    pc # "idle" => ProfileKeys(mem) \subseteq CurrentEntities

\* ------------------------------------------------------------------ C22
\* the profile aggregate_game_profiles returned for the current game
CurrentProfile == game_profiles[Len(game_profiles)]

\* C22: once save_game_profile has returned, the profile of the game is
\* in the checkpoint file under the game's name, whatever its status.
C22_StoredWhateverStatus ==
    pc = "progress" =>
        /\ disk[file].kind = "doc"
        /\ CurrentProfile.game_name \in ProfileKeys(disk[file])

\* ------------------------------------------------------------------ C23
\* the run has called analyze_batch for every batch of the game g
BatchesAttempted(g) ==
    \A n \in 1..Len(split_into_batches(Reviews(g), batch_size)) :
        \E i \in 1..Len(calls) :
            /\ calls[i].kind = "batch"
            /\ calls[i].game_name = g
            /\ calls[i].batch_num = n

\* the run has a profile, successful or failed, for the game g
EntityAttempted(g) ==
    \E i \in 1..Len(game_profiles) : game_profiles[i].game_name = g

\* the run leaves analyze_user_profiles after its data was loaded, and
\* not by KeyboardInterrupt
EndsUninterrupted ==
    /\ pc \notin {"idle", "save_init", "load"}
    /\ pc' = "idle"
    /\ prev'.outcome # "interrupted"

\* C23: a started run always comes to an end; when it ends without having
\* been interrupted, whatever batches and games failed, it has attempted
\* every batch of every remaining game and every remaining game, and the
\* checkpoint file holds every game profile that succeeded.
C23_RunCompletes ==
    /\ (pc # "idle") ~> (pc = "idle")
    /\ [][EndsUninterrupted =>
            /\ \A g \in Range(remaining) :
                    BatchesAttempted(g) /\ EntityAttempted(g)
            /\ disk'[file].kind = "doc"
            /\ \A p \in Range(Successful(game_profiles)) :
                    p \in Range(disk'[file].game_profiles)]_vars

\* the last step of a run on both games in which a batch failed and a
\* game's aggregation failed
C23_Witness ==
    /\ pc = "final"
    /\ Len(remaining) = 2
    /\ \E r \in done : r.kind = "batch" /\ r.status = "failed"
    /\ \E r \in done : r.kind = "game" /\ r.status = "failed"

\* ------------------------------------------------------------------ C24
\* an aggregation was called on its own, had something to aggregate, and
\* json.loads rejected the answer's text
GameFellBack ==
    /\ unit.op = "game" /\ unit.pc = "done"
    /\ Successful(unit.results) # <<>>
    /\ unit.content.kind = "garbage"

OverallFellBack ==
    /\ unit.op = "overall" /\ unit.pc = "done"
    /\ Successful(unit.profiles) # <<>>
    /\ ~JoinFails(Successful(unit.profiles))
    /\ unit.content.kind = "garbage"

\* the fallback profile is a success, its summary holds the review count
\* and its counts are those of the successful inputs
FallbackCounts ==
    /\ GameFellBack =>
        /\ unit.profile.status = "success"
        /\ unit.profile.total_reviews = SumSeq(ReviewCounts(Successful(unit.results)))
        /\ unit.profile.batch_count = Len(Successful(unit.results))
        /\ unit.profile.summary.reviews = unit.profile.total_reviews
    /\ OverallFellBack =>
        /\ unit.profile.status = "success"
        /\ unit.profile.total_games = Len(Successful(unit.profiles))
        /\ unit.profile.total_reviews = SumSeq(TotalReviews(Successful(unit.profiles)))
        /\ unit.profile.summary.reviews = unit.profile.total_reviews

\* C24 (as claimed): when the answer cannot be parsed the aggregator
\* returns a successful placeholder profile with the counts of the
\* successful inputs, a summary with the review count, and pros, cons
\* and tags of one placeholder element each.
C24_PlaceholderSingletons ==
    /\ FallbackCounts
    /\ GameFellBack \/ OverallFellBack =>
        \A f \in ListFields : Len(unit.profile.lists[f]) = 1

\* C24 (amended): as above, with pros and cons of one placeholder
\* element each and tags of two.
C24_PlaceholderProfile ==
    /\ FallbackCounts
    /\ GameFellBack \/ OverallFellBack =>
        /\ Len(unit.profile.lists.pros) = 1
        /\ Len(unit.profile.lists.cons) = 1
        /\ Len(unit.profile.lists.tags) = 2

\* a game with a failed and a successful batch fell back to the placeholder
C24_Witness ==
    /\ GameFellBack
    /\ Len(Successful(unit.results)) < Len(unit.results)
    /\ unit.profile.total_reviews > 0

\* ------------------------------------------------------------------ C25
\* the run asked the oracle to aggregate the game g / the games
AskedForGame(g) ==
    \E i \in 1..Len(calls) : calls[i].kind = "game" /\ calls[i].game_name = g

AskedForOverall == \E i \in 1..Len(calls) : calls[i].kind = "overall"

\* aggregate_game_profiles has returned for a game without a successful batch
NoBatchSucceeded == pc = "save_game" /\ Successful(batch_results) = <<>>

\* generate_overall_profile has returned without a successful game profile
NoGameSucceeded ==
    /\ pc = "final"
    /\ mem.overall_profile = NoProfile
    /\ Successful(game_profiles) = <<>>

\* C25: with no successful batch the game's profile is failed, carries an
\* error message and no total_reviews, and no aggregation call was made
\* for the game; with no successful game profile the overall profile is
\* failed with an error message and no overall call was made.
C25_NoOracleCallWithoutInput ==
    /\ NoBatchSucceeded =>
        /\ CurrentProfile.status = "failed"
        /\ "error" \in DOMAIN CurrentProfile
        /\ "total_reviews" \notin DOMAIN CurrentProfile
        /\ ~AskedForGame(remaining[gi])
    /\ NoGameSucceeded =>
        /\ overall.status = "failed"
        /\ "error" \in DOMAIN overall
        /\ ~AskedForOverall

\* both batches of game A failed and its aggregation has returned
C25_Witness ==
    /\ NoBatchSucceeded
    /\ Len(batch_results) = 2
    /\ CurrentProfile.game_name = "A"

\* ------------------------------------------------------------------ C26
\* the step wrote the checkpoint: the file holds the document of the run
WriteSucceeded ==
    IF pc = "final" THEN disk'[file] = mem
    ELSE pc' # "idle" /\ disk'[file] = mem'

\* the step ended the run with an exception or with KeyboardInterrupt
RunBroken == pc' = "idle" /\ prev'.outcome \in {"raised", "interrupted"}

\* C26: a step that is to write the checkpoint either leaves the document
\* in the file or ends the run with the exception raised to the caller;
\* the run never goes on, and never returns a result, after a write that
\* failed.
C26_WriteFailureSurfaced == [][Writes => WriteSucceeded \/ RunBroken]_vars

\* a run was ended by an exception that left the checkpoint cut short
C26_Witness ==
    /\ pc = "idle"
    /\ prev.outcome = "raised"
    /\ prev.excel_file = "X"
    /\ \E t \in DOMAIN disk : disk[t] = PartialFile
    /\ faults = 1

\* ------------------------------------------------------------------ C27
\* the export has called safe_write_excel for the basic table
BasicWritten ==
    /\ unit.op \in {"export", "auto_export"}
    /\ unit.pc = "done"
    /\ unit.input = "rows"

\* the write to the file asked for and the write to the other file name
\* (_temp after PermissionError, _backup after another error) both failed
BothExcelWritesFailed(w) ==
    \/ w.xlsx = "permission" /\ w.temp = "fail"
    \/ w.xlsx = "oserror" /\ w.backup = "fail"

\* C27: whatever the error of the first write, safe_write_excel tries the
\* file asked for, then another file name, then CSV, in this order, and
\* it tries CSV whenever both Excel writes failed.
C27_DegradeChain ==
    BasicWritten =>
        LET a == write_attempts(unit.w)
        IN /\ a[1] = "primary"
           /\ Len(a) >= 2 => a[2] \in {"temp", "backup"}
           /\ Len(a) >= 3 => a[3] = "csv"
           /\ BothExcelWritesFailed(unit.w) => a[Len(a)] = "csv"

\* ------------------------------------------------------------------ C28
\* the batch loop of the game called on its own is over
BatchLoopDone == unit.op = "game" /\ unit.pc \in {"aggregate", "done"}

\* C28: the batch results of a game are numbered 1, 2, ... in the order
\* they were produced, each with the size of its batch as review_count;
\* when the loop is over there is one for each batch and the
\* review_counts sum to the number of reviews of the game.
C28_BatchNumbering ==
    unit.op = "game" =>
        /\ \A i \in 1..Len(unit.results) :
              /\ unit.results[i].batch_num = i
              /\ unit.results[i].review_count = Len(unit.batches[i])
        /\ BatchLoopDone =>
              /\ Len(unit.results) = Len(unit.batches)
              /\ SumSeq(ReviewCounts(unit.results)) = Len(unit.reviews)

\* a game of three reviews in batches of two, the first of which failed
C28_Witness ==
    /\ BatchLoopDone
    /\ Len(unit.reviews) = 3
    /\ unit.batch_size = 2
    /\ Len(unit.results) = 2
    /\ unit.results[1].status = "failed"

\* ------------------------------------------------------------------ C29
\* the distinct items of a sequence, in order of first occurrence
RECURSIVE FirstOccurrences(_, _)
FirstOccurrences(s, seen) ==
    IF s = <<>> THEN <<>>
    ELSE IF Head(s) \in seen THEN FirstOccurrences(Tail(s), seen)
    ELSE <<Head(s)>> \o FirstOccurrences(Tail(s), seen \cup {Head(s)})

TrimmedNames(rows) == [i \in 1..Len(rows) |-> Strip(rows[i].name)]

\* the trimmed texts of the rows of game e, in source order
TrimmedTexts(rows, e) ==
    LET own == SelectSeq(rows, LAMBDA r : Strip(r.name) = e)
    IN [i \in 1..Len(own) |-> Strip(own[i].text)]

\* C29: the grouped output partitions the retained rows (those with a
\* game name and a text): its keys are the trimmed names of these rows in
\* order of first occurrence, and the list of a key holds the trimmed
\* texts of the rows with that name, one for each row, in source order.
C29_GrouperPartition ==
    (/\ unit.op = "load" /\ unit.pc = "done"
     /\ unit.table.readable
     /\ unit.table.columns = {"name", "text"}) =>
        LET kept == CompleteRows(unit.table.rows)
        IN /\ GameNames(unit.games_data)
                = FirstOccurrences(TrimmedNames(kept), {})
           /\ \A i \in 1..Len(unit.games_data) :
                  unit.games_data[i].reviews
                      = TrimmedTexts(kept, unit.games_data[i].game_name)

\* ------------------------------------------------------------------ C30
\* an aggregation called on its own got a text from the oracle and had
\* something to aggregate
Parsed ==
    /\ unit.op \in {"game", "overall"}
    /\ unit.pc = "done"
    /\ unit.response.kind = "text"
    /\ unit.op = "game" => Successful(unit.results) # <<>>
    /\ unit.op = "overall" =>
          /\ Successful(unit.profiles) # <<>>
          /\ ~JoinFails(Successful(unit.profiles))

\* the profile carries the fields of the JSON object c
BuiltFrom(c) ==
    /\ unit.profile.status = "success"
    /\ unit.profile.profile_data = ProfileData(c.data)

\* C30: the text is parsed as it was returned, and a fenced block is
\* stripped only when that fails: a text that is a JSON object as
\* returned gives a profile with that object's fields, also when a
\* string value of it holds a fenced block; a text that is not JSON
\* gives the profile of the object in its fenced block; a text for which
\* both fail is handled as a parse failure (the placeholder profile),
\* and no exception leaves the aggregator.
C30_RawParsedFirst ==
    Parsed =>
        /\ unit.response.raw.kind = "object" => BuiltFrom(unit.response.raw)
        /\ (/\ unit.response.raw.kind = "garbage"
            /\ unit.response.fence.kind = "object")
                => BuiltFrom(unit.response.fence)
        /\ (/\ unit.response.raw.kind = "garbage"
            /\ unit.response.fence.kind \in {"none", "garbage"})
                => /\ unit.profile.status = "success"
                   /\ unit.profile.profile_data = FallbackData
        /\ unit.profile.status \in {"success", "failed"}

\* ------------------------------------------------------------------ C31
\* completed_games is the number of entries of game_profiles
CompletedEqualsStored(d) == d.completed_games = Len(d.game_profiles)

\* completed_games is at most total_games
CompletedWithinTotal(d) == d.completed_games <= d.total_games

\* C31: in every checkpoint document on disk, completed_games is the
\* number of entries of game_profiles and is at most total_games.
C31_CompletedGamesCount ==
    \A t \in DOMAIN disk :
        disk[t].kind = "doc" =>
            CompletedEqualsStored(disk[t]) /\ CompletedWithinTotal(disk[t])

FileResults ==
    IF unit.file.kind = "list" THEN unit.file.results ELSE <<>>

\* main.py is about to call the oracle for a review
AtReviewCall == unit.op = "main" /\ unit.pc = "call"

\* the review the next oracle call is for has no record in the file
CallsOnlyUnrecorded ==
    AtReviewCall =>
        unit.rows[unit.todo[unit.pos]].review_content
            \notin processed_reviews(FileResults)

\* the file holds every analysis that has succeeded so far
SavedBeforeNextCall == AtReviewCall => FileResults = unit.all_results

\* the rows whose analysis returned None in the run before are among
\* the rows of this run
FailedTriedAgain ==
    (unit.op = "main" /\ unit.pc # "idle") =>
        unit.prev_failed \subseteq Range(unit.todo)

\* C33: a run calls the oracle for no review whose text is already in
\* analysis_results.json, every successful analysis is in the file before
\* the next call starts, and a review that returned None is not recorded
\* and is tried again by the next run.
C33_ReviewsResumeByContent ==
    /\ CallsOnlyUnrecorded
    /\ SavedBeforeNextCall
    /\ FailedTriedAgain

\* ------------------------------------------------------------------ C34
\* the number of positions at which the sequence s holds x
Count(s, x) == Cardinality({i \in 1..Len(s) : s[i] = x})

\* the two sequences hold the same items, each the same number of times
SameRecords(s, t) ==
    /\ Len(s) = Len(t)
    /\ \A x \in Range(s) \cup Range(t) : Count(s, x) = Count(t, x)

\* what a run without interruption and with all analyses succeeding
\* leaves in the file: one record for each row
OneRecordPerRow == [i \in 1..Len(unit.rows) |-> ResultOf(unit.rows[i])]

\* a run has gone through its loop to the end with no analysis failing
FinishedClean ==
    /\ unit.op = "main" /\ unit.pc = "idle"
    /\ unit.outcome = "finished"
    /\ unit.prev_failed = {}

\* C34: wherever earlier runs were interrupted, once a run finishes with
\* all its analyses succeeding the file holds the records of an
\* uninterrupted run, one for each row of the table.
C34_ResultIndependentOfInterrupts ==
    FinishedClean => SameRecords(FileResults, OneRecordPerRow)

\* ------------------------------------------------------------------ C35
\* every record of s is in t, as often as in s
HeldIn(s, t) == \A x \in Range(s) : Count(s, x) <= Count(t, x)

\* analysis_results.json is a complete document
FileParses == unit.file # CutResults

\* after the exit on a signal the file holds what the run had computed
NothingLost ==
    (unit.pc = "idle" /\ unit.outcome = "exit")
        => HeldIn(unit.lost, FileResults)

\* C35: whenever SIGINT or SIGTERM arrives, analysis_results.json stays
\* a complete document that can be parsed, and after the exit it holds
\* every result the run had computed.
C35_SignalLeavesCompleteFile ==
    unit.op = "main" => FileParses /\ NothingLost

\* ------------------------------------------------------------------ C36
\* split_into_batches has been executed with the batch size typed
SplitDone ==
    unit.op = "cli" /\ unit.pc \in {"analyze", "aggregate", "done"}

\* C36: whatever number is typed as batch size, split_into_batches runs
\* with a batch size of at least 1, a game with a review gets at least
\* one batch, no batch is empty, and analyze_user_profiles does not raise.
C36_BatchSizeAtLeastOne ==
    SplitDone =>
        /\ unit.batch_size >= 1
        /\ ~unit.raised
        /\ unit.reviews # <<>> => unit.batches # <<>>
        /\ \A i \in 1..Len(unit.batches) : unit.batches[i] # <<>>

\* ------------------------------------------------------------------ C37
\* a run begins in this step
RunBegins == pc = "idle" /\ pc' # "idle"

\* C37: no step of a run on a data file changes a checkpoint document
\* recorded for another data file, and a run that reuses no checkpoint
\* writes to a name under which nothing existed when it began.
C37_OtherDocumentsUntouched ==
    [][/\ \A t \in DOMAIN disk :
            (disk[t].kind = "doc" /\ disk'[t] # disk[t])
                => disk[t].excel_file = excel_file
       /\ (RunBegins /\ ~session_loaded') => disk[file'].kind = "none"]_vars

\* ------------------------------------------------------------------ C38
\* the latest checkpoint file does not parse
LatestUnreadable ==
    ExistingFiles # {} /\ disk[LatestFile].kind = "partial"

\* C38: a run that begins while the latest checkpoint file does not
\* parse begins all the same, as a fresh session: nothing is loaded, its
\* document is the initial one, its file name is one nothing exists
\* under, and the file that does not parse is left as it is.
C38_UnreadableCheckpointSkipped ==
    [][(RunBegins /\ LatestUnreadable) =>
           /\ pc' = "save_init"
           /\ ~session_loaded'
           /\ mem' = [InitDoc(mem'.timestamp, batch_size') EXCEPT
                         !.excel_file = excel_file']
           /\ file' # LatestFile
           /\ disk[file'].kind = "none"
           /\ disk' = disk]_vars

====
